---- MODULE Spec2Model ----
(***************************************************************************)
(* Model of MeteoTownPicker's CoordinateTransformer (transformer.py).      *)
(*                                                                         *)
(* Numbers.  The program computes in float64; the model computes in        *)
(* fixed point on integers, truncating toward zero:                        *)
(*   CH1903+ components (E, N, h)     : 1/100   (centimetres)              *)
(*   WGS84 latitude and longitude     : 1/10^4  degree                     *)
(*   WGS84 height                     : 1/100                              *)
(* The auxiliary quantities keep 5 to 8 decimals (named ..8, ..7, ..).     *)
(* Every product is formed by MulDiv, which never leaves 32 bits.          *)
(*                                                                         *)
(* Arrays.  A numpy array is a record [ndim, shape, data, obj]: data is    *)
(* the flat sequence of a 1-D array or the sequence of rows of a 2-D one;  *)
(* obj marks dtype=object (the elements are Python tuples).                *)
(***************************************************************************)
EXTENDS Integers, Sequences, FiniteSets, TLC

\* ------------------------------------------------------------ bounds
\* The longest batch (number of points) the caller passes.
MaxBatch == 2
\* The most components a point of the caller's batch has.
MaxDim == 4

\* ------------------------------------------------------------ fixed point
S4 == 10^4
S5 == 10^5
S6 == 10^6
S7 == 10^7
S8 == 10^8
S9 == 10^9

Abs(x) == IF x < 0 THEN -x ELSE x

\* <<q, r>> with a * b = q * d + r and 0 <= r < d, for a, b >= 0, 0 < d <= 10^9.
RECURSIVE MulDivNat(_, _, _)
MulDivNat(a, b, d) ==
  IF b = 0 THEN <<0, 0>>
  ELSE LET h == MulDivNat(a, b \div 2, d)
           add == IF b % 2 = 1 THEN a ELSE 0
           s == ((2 * h[2]) % d) + (add % d)
       IN <<(2 * h[1]) + ((2 * h[2]) \div d) + (add \div d) + (s \div d), s % d>>

\* a * b / d, truncated toward zero.
MulDiv(a, b, d) ==
  LET q == MulDivNat(Abs(a), Abs(b), d)[1]
  IN IF (a < 0) # (b < 0) THEN -q ELSE q

\* ------------------------------------------------------------ registry
\* formats.csv, column 'name' (the data file is not part of src/).
SUPPORTED_CRS == <<"WGS84", "CH1903+">>

\* (SUPPORTED_CRS['name'] == crs).any(), but with != for ==.
IsSupported_neq(crs) == \E i \in DOMAIN SUPPORTED_CRS : SUPPORTED_CRS[i] # crs

\* (SUPPORTED_CRS['name'] == crs).any()
IsSupported(crs) == \E i \in DOMAIN SUPPORTED_CRS : SUPPORTED_CRS[i] = crs

\* ------------------------------------------------------------ outcomes
NoArray == [ndim |-> 0, shape |-> <<>>, data |-> <<>>, obj |-> FALSE]

\* A call that has not happened.
NoOutcome ==
  [kind |-> "none", exc |-> "", msg |-> "", value |-> NoArray,
   base |-> "none", projected |-> FALSE]

\* raise exc(msg)
Raise(exc, msg) ==
  [kind |-> "raised", exc |-> exc, msg |-> msg, value |-> NoArray,
   base |-> "none", projected |-> FALSE]

\* return value; base says whose memory the array is ("input": the caller's
\* array or a view of it, "fresh": allocated by the call, "same": the array the
\* routine was given), projected whether a projection routine ran.
Return(value, base, projected) ==
  [kind |-> "returned", exc |-> "", msg |-> "", value |-> value,
   base |-> base, projected |-> projected]

\* ------------------------------------------------------------ numpy
\* Whether the rows of a list differ in length.
Ragged(vals) == \E i, j \in DOMAIN vals : Len(vals[i]) # Len(vals[j])

\* np.array(coords) of a list: a flat list of numbers is 1-D (an empty list has
\* shape (0,)), a list of equally long rows is 2-D, and a ragged list, where
\* numpy accepts it (before 1.24), is a 1-D object array of tuples.
np_array(coords) ==
  IF coords.kind = "flat"
    THEN [ndim |-> 1, shape |-> <<Len(coords.vals)>>, data |-> coords.vals, obj |-> FALSE]
  ELSE IF Ragged(coords.vals)
    THEN [ndim |-> 1, shape |-> <<Len(coords.vals)>>, data |-> coords.vals, obj |-> TRUE]
  ELSE [ndim |-> 2, shape |-> <<Len(coords.vals), Len(coords.vals[1])>>,
        data |-> coords.vals, obj |-> FALSE]

\* coords.reshape(1, -1) of a 1-D array: one row, a view of the same memory.
reshape_row(a) ==
  [ndim |-> 2, shape |-> <<1, a.shape[1]>>, data |-> <<a.data>>, obj |-> a.obj]

\* np.hstack((coords, np.zeros((coords.shape[0], 1)))): a new array.
PadHeight(a) ==
  [ndim |-> 2, shape |-> <<a.shape[1], a.shape[2] + 1>>,
   data |-> [i \in 1..a.shape[1] |-> Append(a.data[i], 0)], obj |-> a.obj]

\* coords[:, :2] with the slice forgotten.
DropHeight_keep(a) == a

\* coords[:, 1:3] for coords[:, :2].
DropHeight_shift(a) ==
  [ndim |-> 2, shape |-> <<a.shape[1], 2>>,
   data |-> [i \in 1..a.shape[1] |-> SubSeq(a.data[i], 2, 3)], obj |-> a.obj]

\* coords[:, :2]
DropHeight(a) ==
  [ndim |-> 2, shape |-> <<a.shape[1], IF a.shape[2] < 2 THEN a.shape[2] ELSE 2>>,
   data |-> [i \in 1..a.shape[1] |->
               SubSeq(a.data[i], 1, IF a.shape[2] < 2 THEN a.shape[2] ELSE 2)],
   obj |-> a.obj]

\* coords[0, j] for coords[:, j]: the first row's value for every row.
Column_first(a, j) == [i \in 1..a.shape[1] |-> a.data[1][j]]

\* coords[:, j] (j counted from 1)
Column(a, j) == [i \in 1..a.shape[1] |-> a.data[i][j]]

\* np.column_stack([b, a, c])
column_stack_swapped(a, b, c) ==
  [ndim |-> 2, shape |-> <<Len(a), 3>>,
   data |-> [i \in 1..Len(a) |-> <<b[i], a[i], c[i]>>], obj |-> FALSE]

\* np.column_stack([a, b, c]): a new array.
column_stack(a, b, c) ==
  [ndim |-> 2, shape |-> <<Len(a), 3>>,
   data |-> [i \in 1..Len(a) |-> <<a[i], b[i], c[i]>>], obj |-> FALSE]

\* ------------------------------------------------------------ CH1903+ -> WGS84
\* _y = (E-2600000) / 1000000, at 10^-8 (E in 1/100).
Norm_y(E) == E - 260000000

\* _x = (N-1200000) / 1000000, at 10^-8 (N in 1/100).
Norm_x(N) == N - 120000000

\* _long = 2.6779094 + 4.728982*_y + 0.791484*_y*_x + 0.1306*_y*_x**2
\*         - 0.0436*_y**3, at 10^-8.
CH_long(y, x) ==
  LET yx == MulDiv(y, x, S8)
      x2 == MulDiv(x, x, S8)
      y3 == MulDiv(MulDiv(y, y, S8), y, S8)
  IN 267790940 + MulDiv(y, 4728982, S6) + MulDiv(yx, 791484, S6)
     + MulDiv(MulDiv(y, x2, S8), 1306, S4) - MulDiv(y3, 436, S4)

\* _lat = 16.9023892 + 3.238272*_x - 0.270978*_y**2 - 0.002528*_x**2
\*        - 0.0447*_x*_y + 0.0140*_y**3, at 10^-8.
CH_lat(y, x) ==
  LET xy == MulDiv(x, y, S8)
      x2 == MulDiv(x, x, S8)
      y2 == MulDiv(y, y, S8)
      y3 == MulDiv(y2, y, S8)
  IN 1690238920 + MulDiv(x, 3238272, S6) - MulDiv(y2, 270978, S6)
     - MulDiv(x2, 2528, S6) - MulDiv(xy, 447, S4) + MulDiv(y3, 140, S4)

\* v * 100 / 36: the CH unit (at 10^-8) to decimal degrees (at 10^-4).
ToDegrees(v) == MulDiv(v, 100, 36 * S4)

\* h_wgs = h_ch + 49.55 - 12.6*_y - 22.64*_x, in 1/100.
H_wgs(h_ch, y, x) == h_ch + 4955 - MulDiv(y, 1260, S8) - MulDiv(x, 2264, S8)

\* _transform_to_wgs84(coords, from_crs), coords a 2-D array.
transform_to_wgs84(coords, from_crs) ==
  IF from_crs = "WGS84" THEN Return(coords, "same", TRUE)
  ELSE IF from_crs = "CH1903+" THEN
    IF coords.shape[2] < 3 THEN Raise("IndexError", "index out of bounds for axis 1")
    ELSE IF coords.obj THEN Raise("TypeError", "unsupported operand type(s) for -")
    ELSE LET E == Column(coords, 1)
             N == Column(coords, 2)
             h_ch == Column(coords, 3)
             rows == 1..coords.shape[1]
             _y == [i \in rows |-> Norm_y(E[i])]
             _x == [i \in rows |-> Norm_x(N[i])]
             long == [i \in rows |-> ToDegrees(CH_long(_y[i], _x[i]))]
             lat == [i \in rows |-> ToDegrees(CH_lat(_y[i], _x[i]))]
             h_wgs == [i \in rows |-> H_wgs(h_ch[i], _y[i], _x[i])]
         IN Return(column_stack(lat, long, h_wgs), "fresh", TRUE)
  ELSE Raise("ValueError", "Unsupported source CRS")

\* ------------------------------------------------------------ WGS84 -> CH1903+
\* _lat = (coords[:,0]-169028.66) / 10000, at 10^-8 (the input in 10^-4).
Norm_lat(c) == c - 1690286600

\* _long = (coords[:,1]-26782.5) / 10000, at 10^-8 (the input in 10^-4).
Norm_long(c) == c - 267825000

\* E = 2600072.37 + 211455.93*_lat - 10938.51*_lat*_long - 0.36*_lat*_long**2
\*     + - 44.54*_lat**3, in 1/100.
CH_E(la, lo) ==
  LET latlong == MulDiv(la, lo, S9)                         \* at 10^-7
      long2 == MulDiv(lo, lo, S9)                           \* at 10^-7
      latlong2 == MulDiv(la, long2, S9)                     \* at 10^-6
      lat3 == MulDiv(la, MulDiv(la, la \div 10, S9), S9)    \* at 10^-5
  IN 260007237 + MulDiv(la, 21145593, S8) - MulDiv(latlong, 1093851, S7)
     - MulDiv(latlong2, 36, S6) - MulDiv(lat3, 4454, S5)

\* N = 1200147.07 + 308807.95*_long + 3745.25*_lat**2 + 76.63*_long**2
\*     - 194.56*_lat**2*_long + 119.79*_lat**3, in 1/100.
CH_N(la, lo) ==
  LET lat2 == MulDiv(la, la \div 10, S9)                    \* at 10^-6
      long2 == MulDiv(lo, lo, S9)                           \* at 10^-7
      lat2long == MulDiv(lo, lat2, S8)                      \* at 10^-6
      lat3 == MulDiv(la, lat2, S9)                          \* at 10^-5
  IN 120014707 + MulDiv(lo, 30880795, S8) + MulDiv(lat2, 374525, S6)
     + MulDiv(long2, 7663, S7) - MulDiv(lat2long, 19456, S6)
     + MulDiv(lat3, 11979, S5)

\* h_ch = coords[:,2] - 49.55 + 2.73*_lat + 6.94*_long, in 1/100.
H_ch(h_wgs, la, lo) == h_wgs - 4955 + MulDiv(la, 273, S8) + MulDiv(lo, 694, S8)

\* _transform_from_wgs84(coords, to_crs), coords a 2-D array.
transform_from_wgs84(coords, to_crs) ==
  IF to_crs = "WGS84" THEN Return(coords, "same", TRUE)
  ELSE IF to_crs = "CH1903+" THEN
    IF coords.shape[2] < 1 THEN Raise("IndexError", "index out of bounds for axis 1")
    ELSE IF coords.obj THEN Raise("TypeError", "unsupported operand type(s) for -")
    ELSE IF coords.shape[2] < 3 THEN Raise("IndexError", "index out of bounds for axis 1")
    ELSE LET rows == 1..coords.shape[1]
             c0 == Column(coords, 1)
             c1 == Column(coords, 2)
             c2 == Column(coords, 3)
             _lat == [i \in rows |-> Norm_lat(c0[i])]
             _long == [i \in rows |-> Norm_long(c1[i])]
             E == [i \in rows |-> CH_E(_lat[i], _long[i])]
             N == [i \in rows |-> CH_N(_lat[i], _long[i])]
             h_ch == [i \in rows |-> H_ch(c2[i], _lat[i], _long[i])]
         IN Return(column_stack(E, N, h_ch), "fresh", TRUE)
  ELSE Raise("ValueError", "Unsupported target CRS")

\* ------------------------------------------------------------ transform
\* from_crs == to_crs, honoured for the pivot system only.
SameCRS_pivot(from_crs, to_crs) == from_crs = to_crs /\ from_crs = "WGS84"

\* from_crs == to_crs
SameCRS(from_crs, to_crs) == from_crs = to_crs

\* CoordinateTransformer.transform(coords, from_crs, to_crs).  coords is the
\* caller's object [type, kind, vals]: type is its Python type, kind "flat" a
\* sequence of numbers and "rows" a sequence of points.  legacy says whether
\* the installed numpy still builds an object array from a ragged list (it
\* raises ValueError from 1.24 on).
transform(coords, from_crs, to_crs, legacy) ==
  IF ~IsSupported(from_crs) THEN Raise("AssertionError", "Unsupported source CRS")
  ELSE IF ~IsSupported(to_crs) THEN Raise("AssertionError", "Unsupported target CRS")
  ELSE IF coords.type \notin {"list", "ndarray"}
    THEN Raise("AssertionError", "Coordinates must be a list or numpy array.")
  ELSE IF coords.type = "list" /\ coords.kind = "rows" /\ Ragged(coords.vals) /\ ~legacy
    THEN Raise("ValueError", "inhomogeneous shape")
  ELSE
    LET \* np.array copies a list; an ndarray is used as it is
        a0 == np_array(coords)
        a1 == IF a0.ndim = 1 THEN reshape_row(a0) ELSE a0
        drop_height == a1.shape[2] = 2
        a2 == IF drop_height THEN PadHeight(a1) ELSE a1
        base2 == IF coords.type = "ndarray" /\ ~drop_height THEN "input" ELSE "fresh"
        Out(a) == IF drop_height THEN DropHeight(a) ELSE a
    IN IF SameCRS(from_crs, to_crs) THEN Return(Out(a2), base2, FALSE)
       ELSE LET w == transform_to_wgs84(a2, from_crs)
            IN IF w.kind = "raised" THEN w
               ELSE LET t == transform_from_wgs84(w.value, to_crs)
                    IN IF t.kind = "raised" THEN t
                       ELSE Return(Out(t.value),
                                   IF w.base = "same" /\ t.base = "same"
                                     THEN base2 ELSE "fresh",
                                   TRUE)

\* ------------------------------------------------------------ the caller
VARIABLES
  pc,        \* "idle", "called" (transform has returned or raised), "written"
  coords,    \* the caller's batch object, as it is now
  arg,       \* the caller's batch object as it was when transform was called
  from_crs,  \* the call's source CRS name
  to_crs,    \* the call's target CRS name
  outcome    \* what the call did: a returned array or a raised exception

vars == <<pc, coords, arg, from_crs, to_crs, outcome>>

\* The CRS names a caller passes: the registry's two and one it does not hold.
CRSNames == {"WGS84", "CH1903+", "NAD83"}

\* The Python types a caller passes.
Types == {"list", "ndarray", "tuple"}

\* Points in the Swiss bounding region (E 2485000..2834000, N 1075000..1296000):
\* Bern's reference point, a point near Zurich and the south-west corner, in
\* 1/100.
CHBase ==
  << <<260000000, 120000000, 0>>,
     <<268300000, 124800000, 40800>>,
     <<248500000, 107500000, 37500>> >>

\* The same three places in WGS84: lat, lon in 10^-4 degree, height in 1/100.
WGSBase ==
  << <<469510, 74386, 4955>>,
     <<473771, 85376, 45543>>,
     <<458147, 59591, 42882>> >>

\* A point of d components in the units of crs; components after the third are 700.
Point(crs, p, d) ==
  LET base == IF crs = "WGS84" THEN WGSBase ELSE CHBase
  IN [k \in 1..d |-> IF k <= 3 THEN base[p][k] ELSE 700]

Points(crs) == {Point(crs, p, d) : p \in DOMAIN CHBase, d \in 0..MaxDim}

\* Non-empty sequences of points, of any dimensionalities.
RowVals(crs) == UNION {[1..n -> Points(crs)] : n \in 1..MaxBatch}

Init ==
  /\ pc = "idle"
  /\ coords = [type |-> "list", kind |-> "flat", vals |-> <<>>]
  /\ arg = coords
  /\ from_crs = "WGS84"
  /\ to_crs = "WGS84"
  /\ outcome = NoOutcome

\* The caller calls transform on a batch object of its choice.
Call ==
  /\ pc = "idle"
  /\ \E f \in CRSNames, t \in CRSNames, ty \in Types, kind \in {"flat", "rows"} :
       \E vals \in (IF kind = "flat" THEN Points(f) ELSE RowVals(f)), legacy \in BOOLEAN :
         LET c == [type |-> ty, kind |-> kind, vals |-> vals]
         IN \* a numeric ndarray has rows of one length
            /\ (ty = "ndarray" /\ kind = "rows") => ~Ragged(vals)
            /\ coords' = c
            /\ arg' = c
            /\ from_crs' = f
            /\ to_crs' = t
            /\ outcome' = transform(c, f, t, legacy)
  /\ pc' = "called"

\* The caller writes a number into the array transform returned.  The write
\* lands in the caller's own array where the returned array is that array or a
\* view of it.
WriteResult ==
  /\ pc = "called"
  /\ outcome.kind = "returned"
  /\ \E i \in 1..outcome.value.shape[1], j \in 1..outcome.value.shape[2], v \in {-1} :
       /\ outcome' = [outcome EXCEPT !.value.data[i][j] = v]
       /\ coords' = IF outcome.base # "input" THEN coords
                    ELSE IF coords.kind = "flat" THEN [coords EXCEPT !.vals[j] = v]
                    ELSE [coords EXCEPT !.vals[i][j] = v]
  /\ pc' = "written"
  /\ UNCHANGED <<arg, from_crs, to_crs>>

Next == Call \/ WriteResult

Spec == Init /\ [][Next]_vars

\* ------------------------------------------------------------ vocabulary
\* The names the registry holds (isSupported).
RegistryNames == {SUPPORTED_CRS[i] : i \in DOMAIN SUPPORTED_CRS}

\* A valid batch: a list or array of one or more points, all 2-D or all 3-D.
ValidBatch(c) ==
  /\ c.type \in {"list", "ndarray"}
  /\ c.kind = "rows"
  /\ \E d \in {2, 3} : \A i \in DOMAIN c.vals : Len(c.vals[i]) = d

\* The dimensionality of a valid batch.
Dim(c) == Len(c.vals[1])

\* The empty batch, [].
EmptyBatch(c) == c.kind = "flat" /\ Len(c.vals) = 0

\* A non-empty batch with a point that is neither 2-D nor 3-D, or with points
\* of different dimensionalities.
BadDims(c) ==
  /\ c.kind = "rows"
  /\ \/ \E i \in DOMAIN c.vals : Len(c.vals[i]) \notin {2, 3}
     \/ Ragged(c.vals)

\* Bern's reference coordinate E=2600000, N=1200000, h=0, in 1/100.
Bern == <<260000000, 120000000, 0>>

\* ------------------------------------------------------------ claims

\* C1: a CH1903+ batch taken to WGS84 and back differs from the original by
\* less than 0.1 units (10 hundredths) in every component.
C1_RoundTrip ==
  (pc = "called" /\ ValidBatch(arg) /\ from_crs = "CH1903+" /\ to_crs = "WGS84"
     /\ outcome.kind = "returned")
  => LET back == transform([type |-> "ndarray", kind |-> "rows",
                            vals |-> outcome.value.data],
                           "WGS84", "CH1903+", FALSE)
     IN /\ back.kind = "returned"
        /\ \A i \in DOMAIN arg.vals : \A k \in DOMAIN arg.vals[i] :
             Abs(back.value.data[i][k] - arg.vals[i][k]) < 10

\* C2: with a CRS name the registry does not hold, transform of a valid batch
\* raises the unsupported-CRS error naming that side (the source when the
\* source is unknown, the target when only the target is), also when both
\* names are the same unknown name; nothing is returned.
C2_UnsupportedCRS ==
  (pc = "called" /\ ValidBatch(arg))
  => /\ from_crs \notin RegistryNames
          => (outcome.kind = "raised" /\ outcome.msg = "Unsupported source CRS")
     /\ (from_crs \in RegistryNames /\ to_crs \notin RegistryNames)
          => (outcome.kind = "raised" /\ outcome.msg = "Unsupported target CRS")

C2_Witness ==
  /\ pc = "called" /\ ValidBatch(arg)
  /\ from_crs = to_crs /\ from_crs \notin RegistryNames
  /\ outcome.kind = "raised" /\ outcome.msg = "Unsupported source CRS"

\* C3: transform of the empty batch raises, for every pair of supported CRS
\* names; it never returns.
C3_EmptyBatchRejected ==
  (pc = "called" /\ EmptyBatch(arg)
     /\ from_crs \in RegistryNames /\ to_crs \in RegistryNames)
  => outcome.kind = "raised"

\* C4: transform of a non-empty batch with a point that is not 2-D or 3-D, or
\* with points of different dimensionalities, raises, for every pair of
\* supported CRS names; it never returns.
C4_BadDimsRejected ==
  (pc = "called" /\ BadDims(arg)
     /\ from_crs \in RegistryNames /\ to_crs \in RegistryNames)
  => outcome.kind = "raised"

\* C5: transform of a valid batch from a supported CRS to the same CRS returns
\* the batch's values exactly, in order, and runs no projection.
C5_Identity ==
  (pc = "called" /\ ValidBatch(arg)
     /\ from_crs \in RegistryNames /\ to_crs = from_crs)
  => /\ outcome.kind = "returned"
     /\ outcome.value.data = arg.vals
     /\ ~outcome.projected

C5_Witness ==
  /\ pc = "called" /\ ValidBatch(arg) /\ Dim(arg) = 2 /\ Len(arg.vals) = 2
  /\ from_crs = "CH1903+" /\ to_crs = "CH1903+"
  /\ outcome.kind = "returned" /\ outcome.value.data = arg.vals

\* C6: transform of a valid batch of N points between supported CRS names
\* returns N points, each of the input's dimensionality.
C6_DimensionalityPreserved ==
  (pc = "called" /\ ValidBatch(arg)
     /\ from_crs \in RegistryNames /\ to_crs \in RegistryNames)
  => /\ outcome.kind = "returned"
     /\ outcome.value.shape = <<Len(arg.vals), Dim(arg)>>
     /\ Len(outcome.value.data) = Len(arg.vals)
     /\ \A i \in DOMAIN outcome.value.data : Len(outcome.value.data[i]) = Dim(arg)

C6_Witness ==
  /\ pc = "called" /\ ValidBatch(arg) /\ Dim(arg) = 2 /\ Len(arg.vals) = 2
  /\ from_crs = "CH1903+" /\ to_crs = "WGS84"
  /\ outcome.kind = "returned" /\ outcome.value.shape = <<2, 2>>

\* C7: the i-th point transform returns for a valid batch is the point it
\* returns for the one-point batch holding the i-th input point.
C7_BatchConsistency ==
  (pc = "called" /\ ValidBatch(arg)
     /\ from_crs \in RegistryNames /\ to_crs \in RegistryNames)
  => /\ outcome.kind = "returned"
     /\ \A i \in DOMAIN arg.vals :
          LET one == transform([arg EXCEPT !.vals = <<arg.vals[i]>>],
                               from_crs, to_crs, FALSE)
          IN one.kind = "returned" /\ outcome.value.data[i] = one.value.data[1]

C7_Witness ==
  /\ pc = "called" /\ ValidBatch(arg) /\ Len(arg.vals) = 2
  /\ arg.vals[1] # arg.vals[2]
  /\ from_crs = "CH1903+" /\ to_crs = "WGS84"
  /\ outcome.kind = "returned"
  /\ outcome.value.data[1] # outcome.value.data[2]

\* C8: Bern's reference point (E=2600000, N=1200000, h=0) goes from CH1903+ to
\* WGS84 as (latitude, longitude, height) with the latitude within 0.01 of
\* 46.951, the longitude within 0.01 of 7.439 and the height 49.55.
C8_KnownFixedPoint ==
  (pc = "called" /\ ValidBatch(arg) /\ Dim(arg) = 3
     /\ from_crs = "CH1903+" /\ to_crs = "WGS84")
  => /\ outcome.kind = "returned"
     /\ \A i \in DOMAIN arg.vals :
          arg.vals[i] = Bern
          => /\ Abs(outcome.value.data[i][1] - 469510) < 100
             /\ Abs(outcome.value.data[i][2] - 74390) < 100
             /\ outcome.value.data[i][3] = 4955

C8_Witness ==
  /\ pc = "called" /\ ValidBatch(arg) /\ Dim(arg) = 3
  /\ from_crs = "CH1903+" /\ to_crs = "WGS84"
  /\ arg.vals[1] = Bern
  /\ outcome.kind = "returned" /\ outcome.value.data[1][3] = 4955

\* C9: the caller's batch holds the values it had when transform was called,
\* also after the caller writes into the batch transform returned (stated for
\* the valid batches and the supported CRS names).
C9_InputUntouched ==
  (ValidBatch(arg) /\ from_crs \in RegistryNames /\ to_crs \in RegistryNames)
  => coords = arg

\* C10: for a valid 2-D batch, transform returns the first two components of
\* what it returns for the same points with height 0 appended.
C10_HeightPadding ==
  (pc = "called" /\ ValidBatch(arg) /\ Dim(arg) = 2
     /\ from_crs \in RegistryNames /\ to_crs \in RegistryNames)
  => LET padded == [arg EXCEPT !.vals =
                      [i \in DOMAIN arg.vals |-> Append(arg.vals[i], 0)]]
         three == transform(padded, from_crs, to_crs, FALSE)
     IN /\ outcome.kind = "returned"
        /\ three.kind = "returned"
        /\ outcome.value.data =
             [i \in DOMAIN arg.vals |-> SubSeq(three.value.data[i], 1, 2)]

C10_Witness ==
  /\ pc = "called" /\ ValidBatch(arg) /\ Dim(arg) = 2
  /\ from_crs = "WGS84" /\ to_crs = "CH1903+"
  /\ outcome.kind = "returned" /\ outcome.projected
  /\ outcome.value.shape[2] = 2

====
